---- MODULE Spec2Model ----
(***************************************************************************)
(* unleashed_py: a client of the Unleashed REST API.                       *)
(*                                                                         *)
(* The model holds one client object (an EditableResource, which inherits  *)
(* every Resource operation, or an Item), the server it talks to, and the  *)
(* record of the call in progress or last made: the requests it issued,    *)
(* the responses it got, how it ended and what it returned.                *)
(*                                                                         *)
(* Representation.  A Python str is a sequence of tokens (<<>> is ''), so  *)
(* that + is \o.  An optional value is None == <<>> or Some(x) == <<x>>.   *)
(* Inputs are ASCII, so str.encode in getSignature does not raise.         *)
(***************************************************************************)
EXTENDS Integers, Sequences, FiniteSets, TLC

\* ------------------------------------------------------------------ bounds
MaxPages  == 2    \* largest NumberOfPages the server reports, largest page asked for
MaxItems  == 2    \* most Items in one response
MaxFields == 2    \* most fields in the body of a single-item response

None    == <<>>
Some(x) == <<x>>

\* ------------------------------------------------- constructor arguments
auth_id       == "api-id"
auth_sig      == "api-key"
api_add       == "https://api.unleashedsoftware.com"
resource_name == "StockOnHand"
resource_id   == "12345678-9abc-def0-1234-56789abcdef0"

\* **kwargs, as the ordered list of (name, value) pairs Python passes
KwargsChoices ==
  { <<>>,
    << <<"productCode", "CODE">>, <<"pageSize", "200">> >> }

\* the opaque JSON objects a list endpoint serves, compared structurally
ItemVals == {"itemA", "itemB"}

\* ------------------------------------------------------------ pure helpers
RECURSIVE str(_)
\* str(n) for a non-negative int: its decimal digits
str(n) ==
  LET digit(d) == <<"0", "1", "2", "3", "4", "5", "6", "7", "8", "9">>[d + 1]
  IN  IF n < 10 THEN <<digit(n)>> ELSE str(n \div 10) \o <<digit(n % 10)>>

\* base64(HMAC-SHA256(key, msg)): a function of both inputs, taken injective
getSignature(args, privateKey) == <<"b64-hmac-sha256", privateKey, args>>

\* UnleashedBase.__init__: the header before any signature is set
BaseHeader ==
  [ContentType        |-> "application/json",
   Accept             |-> "application/json",
   api_auth_id        |-> auth_id,
   api_auth_signature |-> None]

RECURSIVE FilterLoop(_, _)
\* the loop of Resource.__init__ over kwargs.items(), from filter value f
FilterLoop(f, kw) ==
  IF kw = <<>> THEN f
  ELSE LET name  == Head(kw)[1]
           value == Head(kw)[2]
       IN  FilterLoop(IF f = <<>>
                        THEN f \o <<name, "=", value>>
                        ELSE f \o <<"&", name, "=", value>>,
                      Tail(kw))

\* Resource.build_header(page_num) on a client with header hdr and filter flt
\* (flt is None or Some(string)); yields the fields it assigns
build_header(hdr, flt, page_num) ==
  LET path == <<api_add, "/", resource_name>>
                \o (IF page_num # None THEN <<"/">> \o str(page_num[1]) ELSE <<>>)
  IN  IF flt # None
        THEN [page    |-> page_num,
              header  |-> [hdr EXCEPT !.api_auth_signature =
                                         Some(getSignature(flt[1], auth_sig))],
              address |-> path \o <<"?">> \o flt[1]]
        ELSE [page    |-> page_num,
              header  |-> [hdr EXCEPT !.api_auth_signature =
                                         Some(getSignature(<<>>, auth_sig))],
              address |-> path]

\* Item.build_header()
Item_build_header(hdr) ==
  [header  |-> [hdr EXCEPT !.api_auth_signature = Some(getSignature(<<>>, auth_sig))],
   address |-> <<api_add, "/", resource_name, "/", resource_id>>]

\* a variant that never raises: the status check left out
raise_for_status_never(status) == FALSE

\* requests' Response.raise_for_status(): raises HTTPError on 4xx and 5xx
raise_for_status(status) == 400 <= status /\ status < 600

\* a variant that appends every item: the membership test left out
Fold_appends_all(res, r) == res \o r

RECURSIVE Fold(_, _)
\* the loop of _build_results: append each item not already in results
Fold(res, r) ==
  IF r = <<>> THEN res
  ELSE Fold(IF \E k \in 1..Len(res) : res[k] = Head(r) THEN res ELSE Append(res, Head(r)),
            Tail(r))

\* json.dumps of a list: the text of the array, default separators
DumpsArray(list) == [ws |-> "default", elems |-> list]

RECURSIVE LoadsObject(_, _)
\* json.loads of an object's members into a dict d (insertion ordered):
\* a repeated name keeps its first position and takes the later value
LoadsObject(d, members) ==
  IF members = <<>> THEN d
  ELSE LET m == Head(members)
           at == {k \in 1..Len(d) : d[k][1] = m[1]}
       IN  LoadsObject(IF at = {} THEN Append(d, m)
                       ELSE [k \in 1..Len(d) |-> IF k \in at THEN m ELSE d[k]],
                       Tail(members))

\* Response.json() of a body text holding one JSON object
Loads(text) == LoadsObject(<<>>, text.members)

\* a variant that leaves out the members whose value is null
Dumps_skips_null(d) ==
  [ws |-> "default", members |-> SelectSeq(d, LAMBDA m : m[2] # "null")]

\* json.dumps of a dict: every member in dict order, default separators
Dumps(d) == [ws |-> "default", members |-> d]

\* --------------------------------------------------------------- the state
VARIABLES
  kind,            \* the client's class: "EditableResource" or "Item"
  kwargs,          \* the **kwargs the constructor was given
  filter,          \* self.filter   (None where the class has no such attribute)
  page,            \* self.page     (None or Some(n))
  address,         \* self.address  (<<>> while not yet assigned)
  header,          \* self.header
  srvPagination,   \* the server: the Pagination member of its list envelopes
  pc,              \* where all_results stands: "idle", "loop", "else", "return"
  pages, i, results,   \* the locals of all_results
  op,              \* the call in progress or last made: <<name, arguments...>>
  reqs,            \* the requests that call has issued, in order
  resps,           \* the responses it has received, in order
  outcome,         \* "running", "returned", or the exception it raised
  retval           \* None, or Some(the value returned)

vars == <<kind, kwargs, filter, page, address, header, srvPagination,
          pc, pages, i, results, op, reqs, resps, outcome, retval>>

client == <<kind, kwargs, filter, page, address, header>>
locals == <<pc, pages, i, results>>

\* ---------------------------------------------------------- the transport
Get(addr, hdr) == [method |-> "GET", address |-> addr, header |-> hdr, data |-> None]

Post(addr, hdr, object) ==
  [method |-> "POST", address |-> addr, header |-> hdr, data |-> Some(object)]

\* Pagination of an envelope: None (no such member), Some(None) (the member has
\* no NumberOfPages), Some(Some(n))
PaginationChoices ==
  {None, Some(None)} \cup {Some(Some(n)) : n \in 0..MaxPages}

ItemSeqs == UNION {[1..n -> ItemVals] : n \in 0..MaxItems}

\* a 2xx list response: Items is None when the envelope has no such member
OkEnvelope(items) == [status |-> 200, Items |-> items, Pagination |-> srvPagination]

\* a 4xx response: its body is no envelope
ErrEnvelope == [status |-> 404, Items |-> None, Pagination |-> None]

\* what the server may answer to a GET of a list address
FetchResponses ==
  {OkEnvelope(Some(s)) : s \in ItemSeqs} \cup {OkEnvelope(None), ErrEnvelope}

\* what the server may answer to the GET of getPages, which never reads Items:
\* one list of Items stands for all of them
DiscoveryResponses == {OkEnvelope(Some(<<"itemA">>)), ErrEnvelope}

\* the members (name, JSON value) a single-item body may hold
MemberChoices ==
  {"ProductSourceId", "LastModifiedOn"} \X {"null", "\"/Date(1583240449473)/\"", "42"}

MemberSeqs == UNION {[1..n -> MemberChoices] : n \in 0..MaxFields}

ItemResponses ==
  {[status |-> 200, text |-> [ws |-> w, members |-> m]] :
      w \in {"compact", "indented"}, m \in MemberSeqs}
  \cup {[status |-> 404, text |-> [ws |-> "compact", members |-> <<>>]]}

PostResponses == {[status |-> s, text |-> "raw"] : s \in {200, 404}}

\* ------------------------------------------------------------------- Init
Init ==
  /\ kind \in {"EditableResource", "Item"}
  /\ kwargs \in KwargsChoices
  /\ IF kind = "EditableResource"
       THEN /\ srvPagination \in PaginationChoices
            /\ filter = Some(FilterLoop(<<>>, kwargs))
            /\ LET bh == build_header(BaseHeader, filter, Some(1))
               IN  page = bh.page /\ header = bh.header /\ address = bh.address
       ELSE /\ srvPagination = None
            /\ filter = None /\ page = None
            /\ header = BaseHeader /\ address = <<>>
  /\ pc = "idle" /\ pages = None /\ i = 0 /\ results = <<>>
  /\ op = <<"__init__">> /\ reqs = <<>> /\ resps = <<>>
  /\ outcome = "returned" /\ retval = None

\* ---------------------------------------------------------- the operations
\* a variant that passes the Items through the loop of _build_results
first_page_result_dedup(res) ==
  IF raise_for_status(res.status) THEN [outcome |-> "HTTPError", retval |-> None]
  ELSE IF res.Items = None THEN [outcome |-> "KeyError", retval |-> None]
  ELSE [outcome |-> "returned", retval |-> Some(DumpsArray(Fold(<<>>, res.Items[1])))]

\* the body of first_page after the request: raise, or the Items as served
first_page_result(res) ==
  IF raise_for_status(res.status) THEN [outcome |-> "HTTPError", retval |-> None]
  ELSE IF res.Items = None THEN [outcome |-> "KeyError", retval |-> None]
  ELSE [outcome |-> "returned", retval |-> Some(DumpsArray(res.Items[1]))]

\* a variant that reads Items with a default: .get('Items', [])
build_results_lenient(acc, res) ==
  IF raise_for_status(res.status) THEN [exc |-> "HTTPError", results |-> acc]
  ELSE IF res.Items = None THEN [exc |-> "", results |-> acc]
  ELSE [exc |-> "", results |-> Fold(acc, res.Items[1])]

\* the body of _build_results after the request, on accumulator acc
build_results(acc, res) ==
  IF raise_for_status(res.status) THEN [exc |-> "HTTPError", results |-> acc]
  ELSE IF res.Items = None THEN [exc |-> "KeyError", results |-> acc]
  ELSE [exc |-> "", results |-> Fold(acc, res.Items[1])]

\* the body of getPages after the request: KeyError is caught, HTTPError is not
getPages(res) ==
  IF raise_for_status(res.status) THEN [exc |-> "HTTPError", ret |-> None]
  ELSE IF res.Pagination = None \/ res.Pagination[1] = None
         THEN [exc |-> "", ret |-> None]
  ELSE [exc |-> "", ret |-> res.Pagination[1]]

first_page ==
  /\ kind = "EditableResource" /\ pc = "idle"
  /\ \E res \in FetchResponses :
       /\ reqs' = <<Get(address, header)>>
       /\ resps' = <<res>>
       /\ outcome' = first_page_result(res).outcome
       /\ retval' = first_page_result(res).retval
  /\ op' = <<"first_page">>
  /\ UNCHANGED <<client, srvPagination, locals>>

get_page(n) ==
  /\ kind = "EditableResource" /\ pc = "idle"
  /\ LET bh == build_header(header, filter, n)
     IN  /\ page' = bh.page /\ header' = bh.header /\ address' = bh.address
         /\ \E res \in FetchResponses :
              LET out == build_results(<<>>, res)
              IN  /\ reqs' = <<Get(bh.address, bh.header)>>
                  /\ resps' = <<res>>
                  /\ outcome' = IF out.exc = "" THEN "returned" ELSE out.exc
                  /\ retval' = IF out.exc = "" THEN Some(DumpsArray(out.results))
                                               ELSE None
  /\ op' = <<"get_page", n>>
  /\ UNCHANGED <<kind, kwargs, filter, srvPagination, locals>>

\* all_results, line 99: pages = self.getPages()
all_results_getPages ==
  /\ kind = "EditableResource" /\ pc = "idle"
  /\ op' = <<"all_results">>
  /\ \E res \in DiscoveryResponses :
       LET gp == getPages(res)
       IN  /\ reqs' = <<Get(address, header)>>
           /\ resps' = <<res>>
           /\ retval' = None
           /\ IF gp.exc # ""
                THEN /\ outcome' = gp.exc
                     /\ UNCHANGED locals
                ELSE /\ outcome' = "running"
                     /\ pages' = gp.ret
                     /\ results' = <<>>
                     /\ i' = 1
                     /\ pc' = IF gp.ret # None THEN "loop" ELSE "else"
  /\ UNCHANGED <<client, srvPagination>>

\* one build_header and one _build_results of all_results, for page_num
all_results_fetch(page_num, next_pc, next_i) ==
  LET bh == build_header(header, filter, page_num)
  IN  /\ page' = bh.page /\ header' = bh.header /\ address' = bh.address
      /\ \E res \in FetchResponses :
           LET out == build_results(results, res)
           IN  /\ reqs' = Append(reqs, Get(bh.address, bh.header))
               /\ resps' = Append(resps, res)
               /\ IF out.exc # ""
                    THEN /\ outcome' = out.exc
                         /\ pc' = "idle" /\ pages' = None /\ i' = 0 /\ results' = <<>>
                    ELSE /\ outcome' = "running"
                         /\ pc' = next_pc /\ i' = next_i /\ results' = out.results
                         /\ UNCHANGED pages
      /\ UNCHANGED <<kind, kwargs, filter, srvPagination, op, retval>>

\* a variant that walks the pages from the last to the first
all_results_loop_descending ==
  /\ pc = "loop" /\ i <= pages[1]
  /\ all_results_fetch(Some(pages[1] + 1 - i), "loop", i + 1)

\* all_results, lines 102-104: one turn of  for i in range(1, pages + 1)
all_results_loop ==
  /\ pc = "loop" /\ i <= pages[1]
  /\ all_results_fetch(Some(i), "loop", i + 1)

\* a variant that fetches page 1 when pages is None
all_results_else_page1 ==
  /\ pc = "else"
  /\ all_results_fetch(Some(1), "return", i)

\* all_results, lines 106-107: the branch taken when pages is None
all_results_else ==
  /\ pc = "else"
  /\ all_results_fetch(None, "return", i)

\* all_results, line 109: return json.dumps(results)
all_results_return ==
  /\ IF pc = "loop" THEN i > pages[1] ELSE pc = "return"
  /\ retval' = Some(DumpsArray(results))
  /\ outcome' = "returned"
  /\ pc' = "idle" /\ pages' = None /\ i' = 0 /\ results' = <<>>
  /\ UNCHANGED <<client, srvPagination, op, reqs, resps>>

\* a variant that rebuilds the header and address for page 1 before posting
post_object_rebuilds(guid, object) ==
  /\ kind = "EditableResource" /\ pc = "idle"
  /\ LET bh == build_header(header, filter, Some(1))
     IN  /\ page' = bh.page /\ header' = bh.header /\ address' = bh.address
         /\ \E res \in PostResponses :
              /\ reqs' = <<Post(bh.address, bh.header, object)>>
              /\ resps' = <<res>>
              /\ outcome' = "returned"
              /\ retval' = Some(res)
  /\ op' = <<"post_object", guid, object>>
  /\ UNCHANGED <<kind, kwargs, filter, srvPagination, locals>>

\* EditableResource.post_object(guid, object)
post_object(guid, object) ==
  /\ kind = "EditableResource" /\ pc = "idle"
  /\ \E res \in PostResponses :
       /\ reqs' = <<Post(address, header, object)>>
       /\ resps' = <<res>>
       /\ outcome' = "returned"
       /\ retval' = Some(res)
  /\ op' = <<"post_object", guid, object>>
  /\ UNCHANGED <<client, srvPagination, locals>>

Item_result ==
  /\ kind = "Item" /\ pc = "idle"
  /\ LET bh == Item_build_header(header)
     IN  /\ header' = bh.header /\ address' = bh.address
         /\ \E res \in ItemResponses :
              /\ reqs' = <<Get(bh.address, bh.header)>>
              /\ resps' = <<res>>
              /\ IF raise_for_status(res.status)
                   THEN outcome' = "HTTPError" /\ retval' = None
                   ELSE outcome' = "returned" /\ retval' = Some(Dumps(Loads(res.text)))
  /\ op' = <<"result">>
  /\ UNCHANGED <<kind, kwargs, filter, page, srvPagination, locals>>

\* what callers pass
PageArgs == {Some(n) : n \in 1..MaxPages}
Guids    == {"12345678-9abc-def0-1234-56789abcdef0"}
Objects  == {"{\"ProductCode\": \"CODE\"}", "{}"}

Next ==
  \/ first_page
  \/ \E n \in PageArgs : get_page(n)
  \/ all_results_getPages
  \/ all_results_loop
  \/ all_results_else
  \/ all_results_return
  \/ \E g \in Guids, o \in Objects : post_object(g, o)
  \/ Item_result

Spec == Init /\ [][Next]_vars

\* ------------------------------------------------- vocabulary of the claims
\* the part of an address before its query string, and the query string
QueryAt(addr) == {k \in 1..Len(addr) : addr[k] = "?"}

PathOf(addr) ==
  IF QueryAt(addr) = {} THEN addr
  ELSE SubSeq(addr, 1, (CHOOSE k \in QueryAt(addr) : \A j \in QueryAt(addr) : k <= j) - 1)

\* what follows the first '?' of an address
QueryOf(addr) == SubSeq(addr, Len(PathOf(addr)) + 2, Len(addr))

BasePath == <<api_add, "/", resource_name>>

NoPageSegment(addr) == PathOf(addr) = BasePath

PagePath(n) == BasePath \o <<"/">> \o str(n)

RECURSIVE JoinPairs(_)
\* the filter pairs as name=value joined by &
JoinPairs(kw) ==
  IF kw = <<>> THEN <<>>
  ELSE <<Head(kw)[1], "=", Head(kw)[2]>>
         \o (IF Tail(kw) = <<>> THEN <<>> ELSE <<"&">> \o JoinPairs(Tail(kw)))

NoDup(s) == \A j, k \in 1..Len(s) : s[j] = s[k] => j = k

RECURSIVE KeepFirst(_, _)
\* s from position k on, without the items that occur earlier in s
KeepFirst(s, k) ==
  IF k > Len(s) THEN <<>>
  ELSE (IF \E j \in 1..(k - 1) : s[j] = s[k] THEN <<>> ELSE <<s[k]>>) \o KeepFirst(s, k + 1)

FirstOccurrences(s) == KeepFirst(s, 1)

RECURSIVE ConcatItems(_, _)
\* the Items of responses rs[k], rs[k+1], ... one after the other
ConcatItems(rs, k) ==
  IF k > Len(rs) THEN <<>> ELSE rs[k].Items[1] \o ConcatItems(rs, k + 1)

Non2xx(status) == status \notin 200..299

InAllResults == op[1] = "all_results" /\ Len(resps) >= 1

\* the discovery request of the current all_results was answered 2xx with
\* Pagination.NumberOfPages = n
Discovered(n) ==
  /\ InAllResults
  /\ resps[1].status = 200
  /\ resps[1].Pagination = Some(Some(n))

\* ... with a positive NumberOfPages, NPages
DiscoveredPages == \E n \in 1..MaxPages : Discovered(n)

NPages == resps[1].Pagination[1][1]

\* C1: during all_results the accumulator never holds two equal items, and over
\* N >= 1 pages the list returned is the pages' Items in page order with every
\* item equal to an earlier one removed.
C1_Dedup ==
  op[1] = "all_results" =>
    /\ NoDup(results)
    /\ (outcome = "returned" /\ DiscoveredPages)
         => /\ retval[1].elems = FirstOccurrences(ConcatItems(resps, 2))
            /\ NoDup(retval[1].elems)

C1_Witness ==
  /\ op[1] = "all_results" /\ outcome = "returned" /\ Discovered(2)
  /\ Len(resps) = 3
  /\ Len(resps[2].Items[1]) = 2 /\ Len(resps[3].Items[1]) = 2
  /\ resps[2].Items[1][2] = resps[3].Items[1][1]
  /\ resps[3].Items[1][2] # resps[3].Items[1][1]
  /\ Cardinality({k \in 1..Len(retval[1].elems) :
                    retval[1].elems[k] = resps[3].Items[1][1]}) = 1

\* C2: after discovery returned N >= 1, the fetches are GETs of pages 1, 2, ...
\* in ascending order, each to base/resource/i followed by the query string,
\* each answered and folded before the next is issued, and a call that returns
\* has made exactly N of them.
C2_Sequential ==
  DiscoveredPages =>
    /\ Len(reqs) = Len(resps)
    /\ Len(reqs) <= NPages + 1
    /\ \A k \in 2..Len(reqs) :
         /\ reqs[k].method = "GET"
         /\ PathOf(reqs[k].address) = PagePath(k - 1)
         /\ QueryAt(reqs[k].address) # {}
         /\ QueryOf(reqs[k].address) = JoinPairs(kwargs)
         /\ reqs[k].header.api_auth_signature
              = Some(getSignature(JoinPairs(kwargs), auth_sig))
    /\ outcome = "running"
         => /\ i = Len(reqs)
            /\ results = FirstOccurrences(ConcatItems(resps, 2))
    /\ outcome = "returned" => Len(reqs) = NPages + 1

C2_Witness ==
  /\ Discovered(2) /\ outcome = "returned"
  /\ Len(reqs) = 3
  /\ PathOf(reqs[2].address) = PagePath(1)
  /\ PathOf(reqs[3].address) = PagePath(2)

\* C3 as stated: when the discovery envelope lacks Pagination, all_results
\* issues one request in all, to an address with no page segment.
C3_Original ==
  (InAllResults /\ pc = "idle" /\ resps[1].status = 200 /\ resps[1].Pagination = None)
    => /\ Len(reqs) = 1
       /\ NoPageSegment(reqs[1].address)

\* C3 amended: when the discovery envelope lacks Pagination, all_results issues
\* two requests in all, the discovery request and then one fetch, and the
\* fetch's address has no page segment.
C3_Amended ==
  (InAllResults /\ resps[1].status = 200 /\ resps[1].Pagination = None)
    => /\ Len(reqs) <= 2
       /\ pc = "idle" => Len(reqs) = 2
       /\ Len(reqs) = 2 => /\ reqs[2].method = "GET"
                           /\ NoPageSegment(reqs[2].address)
                           /\ pc # "else"

C3_Witness ==
  /\ InAllResults /\ outcome = "returned"
  /\ resps[1].status = 200 /\ resps[1].Pagination = None
  /\ Len(reqs) = 2 /\ NoPageSegment(reqs[2].address)
  /\ retval[1].elems # <<>>

C5_Original ==
  (op[1] \in {"first_page", "all_results"} /\ Len(reqs) >= 1)
    => NoPageSegment(reqs[1].address)

\* C6 as stated: the address is the path alone when no filter pair was given,
\* and the path, '?' and the pairs joined by '&' otherwise.
C6_Original ==
  kind = "EditableResource" =>
    address = (IF page = None THEN BasePath ELSE PagePath(page[1]))
                \o (IF kwargs = <<>> THEN <<>> ELSE <<"?">> \o JoinPairs(kwargs))

\* C7: first_page returns the Items as served, duplicates included; get_page(n)
\* makes one request, for page n, and returns its Items without the items equal
\* to an earlier one; so does all_results over a single page.
C7_VerbatimVsDedup ==
  /\ (op[1] = "first_page" /\ outcome = "returned")
       => retval[1].elems = resps[1].Items[1]
  /\ op[1] = "get_page"
       => /\ Len(reqs) = 1
          /\ reqs[1].method = "GET"
          /\ PathOf(reqs[1].address) = PagePath(op[2][1])
          /\ outcome = "returned"
               => retval[1].elems = FirstOccurrences(resps[1].Items[1])
  /\ (op[1] = "all_results" /\ outcome = "returned" /\ Len(resps) = 2)
       => retval[1].elems = FirstOccurrences(resps[2].Items[1])

C7_Witness ==
  /\ op[1] = "first_page" /\ outcome = "returned"
  /\ Len(resps[1].Items[1]) = 2
  /\ resps[1].Items[1][1] = resps[1].Items[1][2]
  /\ retval[1].elems = resps[1].Items[1]

C10_PostFrame ==
  [][(pc = "idle" /\ op'[1] = "post_object")
       => /\ Len(reqs') = 1
          /\ reqs'[1] = [method |-> "POST", address |-> address,
                         header |-> header, data |-> Some(op'[3])]
          /\ PathOf(address) = (IF page = None THEN BasePath ELSE PagePath(page[1]))
          /\ \A k \in 1..Len(address) : address[k] # op'[2]
          /\ outcome' = "returned"
          /\ retval' = Some(resps'[1])
          /\ address' = address /\ header' = header
          /\ page' = page /\ filter' = filter]_vars

C10_Witness ==
  /\ op[1] = "post_object" /\ outcome = "returned"
  /\ page = Some(2)
  /\ PathOf(reqs[1].address) = PagePath(2)
  /\ Non2xx(resps[1].status)
  /\ retval = Some(resps[1])

====
